---- MODULE Spec2Model ----
(***************************************************************************)
(* A model of src/weather-widget.js: the WeatherWidget class, its refresh  *)
(* cycle (init), the geolocation fallback, the fetch and transformation of *)
(* the forecast response, the rendering and the setInterval refresh.       *)
(*                                                                         *)
(* Units.  Coordinates are integers in 1/10000 of a degree (47.6062 is     *)
(* 476062); temperatures and wind speeds are integers in tenths of a unit  *)
(* (21.6 is 216).  Text the code builds is built here too, as strings; the *)
(* degree sign U+00B0 is written DEG and each emoji by its Unicode name.   *)
(***************************************************************************)
EXTENDS Integers, Sequences, FiniteSets, TLC

VARIABLES
    config,          \* this.config: defaultLat, defaultLon (caller may override)
    hasGeo,          \* whether navigator.geolocation exists in the host
    loadingDisplay,  \* this.loadingEl.style.display
    contentDisplay,  \* this.contentEl.style.display
    errorDisplay,    \* this.errorEl.style.display
    contentHTML,     \* this.contentEl.innerHTML, as the values the template holds
    lastUpdate,      \* this.lastUpdate: 0 is null, c the time cycle c read its body
    cycles,          \* one record per call of init(): its position and its locals
    nCycles,         \* the number of calls of init() so far
    timers           \* the number of active setInterval timers

vars == <<config, hasGeo, loadingDisplay, contentDisplay, errorDisplay,
          contentHTML, lastUpdate, cycles, nCycles, timers>>

----------------------------------------------------------------------------
(* Bounds of the model *)

\* the number of calls of init() (the constructor's and the timers') modelled
MaxCycles == 3
\* weather codes 0..MaxCode (and 200) are the inputs of the lookup tables
MaxCode == 100

Cycle == 1..MaxCycles

----------------------------------------------------------------------------
(* Program constants *)

\* defaultLat: 47.6062, in 1/10000 degree
DefaultLat == 476062
\* defaultLon: -122.3321, in 1/10000 degree
DefaultLon == -1223321
\* the latitude getLocationName compares with: 47.6062
SeattleLat == 476062
\* the longitude getLocationName compares with: -122.3321
SeattleLon == -1223321
\* the 0.1 degree of getLocationName, in 1/10000 degree
NearDegrees == 1000

DEG == "[deg]"

----------------------------------------------------------------------------
(* JavaScript values *)

\* a number, undefined, or NaN; n is meaningful for a number only
Num(n) == [t |-> "number", n |-> n]
Undefined == [t |-> "undefined", n |-> 0]
NaN == [t |-> "NaN", n |-> 0]

Abs(i) == IF i < 0 THEN -i ELSE i

\* String(v): the text a template literal gives an integer-valued snapshot field
JSToString(v) ==
    CASE v.t = "number" -> (IF v.n < 0 THEN "-" ELSE "") \o ToString(Abs(v.n))
      [] v.t = "NaN" -> "NaN"
      [] OTHER -> "undefined"

\* (Math.trunc in the place of Math.round)
MathRoundTrunc(x) ==
    IF x.t = "number"
    THEN Num(IF x.n < 0 THEN -(Abs(x.n) \div 10) ELSE x.n \div 10)
    ELSE NaN

\* Math.round of a value in tenths: floor(x + 0.5), so a tie goes up;
\* Math.round(undefined) is NaN
MathRound(x) ==
    IF x.t = "number" THEN Num((x.n + 5) \div 10) ELSE NaN

\* Number.prototype.toFixed(1) of a coordinate in 1/10000 degree: the sign,
\* then the magnitude to the nearest tenth.  A tie (x.x5 exactly) is decided
\* by the double nearest the decimal; for the ties that are doubles (x.25,
\* x.75) toFixed takes the larger tenth, and the inputs hold no other tie.
ToFixed1(v) ==
    LET m == Abs(v)
        n == (m + 500) \div 1000
    IN (IF v < 0 THEN "-" ELSE "") \o ToString(n \div 10) \o "." \o ToString(n % 10)

----------------------------------------------------------------------------
(* The forecast response body (the parsed JSON) *)

\* An object field is a record with def (FALSE: the field is absent).  The
\* arrays are kept by what the code reads of them: the first element of
\* hourly.relative_humidity_2m, and whether daily.sunrise and daily.sunset
\* are there.  winddirection and time are read and never rendered; they are
\* left out.
Body(temp, wind, code, hum, lat, lon) ==
    [current_weather |-> [def |-> TRUE, temperature |-> temp,
                          windspeed |-> wind, weathercode |-> code],
     hourly |-> [def |-> TRUE, relative_humidity_2m |-> [def |-> TRUE, first |-> hum]],
     daily |-> [def |-> TRUE, sunrise |-> TRUE, sunset |-> TRUE],
     latitude |-> lat,
     longitude |-> lon]

\* the body {}: what a cycle holds before it has read one
EmptyBody ==
    [current_weather |-> [def |-> FALSE, temperature |-> Undefined,
                          windspeed |-> Undefined, weathercode |-> Undefined],
     hourly |-> [def |-> FALSE, relative_humidity_2m |-> [def |-> FALSE, first |-> Undefined]],
     daily |-> [def |-> FALSE, sunrise |-> FALSE, sunset |-> FALSE],
     latitude |-> Undefined,
     longitude |-> Undefined]

Fields == {"current_weather", "temperature", "windspeed", "weathercode",
           "hourly", "relative_humidity_2m", "daily", "sunrise", "sunset",
           "latitude", "longitude"}

\* body b with the field f absent
Without(b, f) ==
    CASE f = "current_weather" -> [b EXCEPT !.current_weather = EmptyBody.current_weather]
      [] f = "temperature" -> [b EXCEPT !.current_weather.temperature = Undefined]
      [] f = "windspeed" -> [b EXCEPT !.current_weather.windspeed = Undefined]
      [] f = "weathercode" -> [b EXCEPT !.current_weather.weathercode = Undefined]
      [] f = "hourly" -> [b EXCEPT !.hourly = EmptyBody.hourly]
      [] f = "relative_humidity_2m" ->
            [b EXCEPT !.hourly.relative_humidity_2m = [def |-> FALSE, first |-> Undefined]]
      [] f = "daily" -> [b EXCEPT !.daily = EmptyBody.daily]
      [] f = "sunrise" -> [b EXCEPT !.daily.sunrise = FALSE]
      [] f = "sunset" -> [b EXCEPT !.daily.sunset = FALSE]
      [] f = "latitude" -> [b EXCEPT !.latitude = Undefined]
      [] f = "longitude" -> [b EXCEPT !.longitude = Undefined]

\* whether body b has every field the code reads
Complete(b) ==
    /\ b.current_weather.def
    /\ b.current_weather.temperature.t = "number"
    /\ b.current_weather.windspeed.t = "number"
    /\ b.current_weather.weathercode.t = "number"
    /\ b.hourly.def /\ b.hourly.relative_humidity_2m.def
    /\ b.daily.def /\ b.daily.sunrise /\ b.daily.sunset
    /\ b.latitude.t = "number" /\ b.longitude.t = "number"

----------------------------------------------------------------------------
(* getLocationName, processWeatherData *)

Threw == [threw |-> TRUE, value |-> ""]
Returned(v) == [threw |-> FALSE, value |-> v]

\* Math.abs(x - c) < 0.1; undefined - c is NaN, and NaN < 0.1 is false.
\* At exactly 0.1 the rounding of the double subtraction decides; the inputs
\* hold no such point.
Near(x, c) == x.t = "number" /\ Abs(x.n - c) < NearDegrees

\* (the configured default in the place of the two literals)
getLocationNameOfConfig(lat, lon) ==
    IF Near(lat, config.defaultLat) /\ Near(lon, config.defaultLon)
    THEN Returned("Seattle, WA")
    ELSE IF lat.t # "number" \/ lon.t # "number"
         THEN Threw
         ELSE Returned(ToFixed1(lat.n) \o DEG \o ", " \o ToFixed1(lon.n) \o DEG)

\* undefined.toFixed throws a TypeError
getLocationName(lat, lon) ==
    IF Near(lat, SeattleLat) /\ Near(lon, SeattleLon)
    THEN Returned("Seattle, WA")
    ELSE IF lat.t # "number" \/ lon.t # "number"
         THEN Threw
         ELSE Returned(ToFixed1(lat.n) \o DEG \o ", " \o ToFixed1(lon.n) \o DEG)

NoSnapshot ==
    [temperature |-> Undefined, windSpeed |-> Undefined, weatherCode |-> Undefined,
     humidity |-> Undefined, location |-> ""]

\* Reading a property of undefined (current, hourly, daily, the two daily
\* arrays, the humidity array) throws a TypeError; Math.round(undefined) and
\* an absent weathercode do not.
processWeatherData(data) ==
    LET name == getLocationName(data.latitude, data.longitude)
    IN IF \/ ~data.current_weather.def
          \/ ~data.hourly.def \/ ~data.hourly.relative_humidity_2m.def
          \/ ~data.daily.def \/ ~data.daily.sunrise \/ ~data.daily.sunset
          \/ name.threw
       THEN [threw |-> TRUE, value |-> NoSnapshot]
       ELSE [threw |-> FALSE,
             value |-> [temperature |-> MathRound(data.current_weather.temperature),
                        windSpeed |-> MathRound(data.current_weather.windspeed),
                        weatherCode |-> data.current_weather.weathercode,
                        humidity |-> data.hourly.relative_humidity_2m.first,
                        location |-> name.value]]

----------------------------------------------------------------------------
(* getWeatherIcon, getWeatherDescription, render *)

\* iconMap[weatherCode]: "" stands for undefined (no such key)
iconMap(n) ==
    CASE n = 0 -> "sun"
      [] n = 1 -> "sun behind small cloud"
      [] n = 2 -> "sun behind cloud"
      [] n = 3 -> "cloud"
      [] n \in {45, 48} -> "fog"
      [] n \in {51, 53, 55} -> "sun behind rain cloud"
      [] n \in {61, 63, 65} -> "cloud with rain"
      [] n \in {71, 73, 75} -> "cloud with snow"
      [] n \in {95, 96, 99} -> "cloud with lightning and rain"
      [] OTHER -> ""

\* (the table of the specification in the place of the code's)
descriptionsVerbatim(n) ==
    CASE n = 0 -> "Clear sky"
      [] n = 1 -> "Mainly clear"
      [] n = 2 -> "Partly cloudy"
      [] n = 3 -> "Overcast"
      [] n \in {45, 48} -> "Foggy"
      [] n = 51 -> "Light drizzle"
      [] n = 53 -> "Moderate drizzle"
      [] n = 55 -> "Dense drizzle"
      [] n = 61 -> "Light rain"
      [] n = 63 -> "Moderate rain"
      [] n = 65 -> "Heavy rain"
      [] n = 71 -> "Light snow"
      [] n = 73 -> "Moderate snow"
      [] n = 75 -> "Heavy snow"
      [] n = 95 -> "Thunderstorm"
      [] n \in {96, 99} -> "Thunderstorm with hail"
      [] OTHER -> ""

\* descriptions[weatherCode]: "" stands for undefined (no such key)
descriptions(n) ==
    CASE n = 0 -> "Clear sky"
      [] n = 1 -> "Mainly clear"
      [] n = 2 -> "Partly cloudy"
      [] n = 3 -> "Overcast"
      [] n = 45 -> "Foggy"
      [] n = 48 -> "Foggy"
      [] n = 51 -> "Light drizzle"
      [] n = 53 -> "Drizzle"
      [] n = 55 -> "Heavy drizzle"
      [] n = 61 -> "Light rain"
      [] n = 63 -> "Rain"
      [] n = 65 -> "Heavy rain"
      [] n = 71 -> "Light snow"
      [] n = 73 -> "Snow"
      [] n = 75 -> "Heavy snow"
      [] n = 95 -> "Thunderstorm"
      [] n = 96 -> "Thunderstorm"
      [] n = 99 -> "Severe thunderstorm"
      [] OTHER -> ""

\* iconMap[weatherCode] || the default glyph; an undefined code has no key
getWeatherIcon(weatherCode) ==
    LET found == IF weatherCode.t = "number" THEN iconMap(weatherCode.n) ELSE ""
    IN IF found # "" THEN found ELSE "sun behind small cloud"

\* descriptions[weatherCode] || 'Unknown'
getWeatherDescription(weatherCode) ==
    LET found == IF weatherCode.t = "number" THEN descriptions(weatherCode.n) ELSE ""
    IN IF found # "" THEN found ELSE "Unknown"

\* innerHTML before the first render
NoHTML ==
    [location |-> "", temp |-> "", icon |-> "", description |-> "",
     humidity |-> "", wind |-> ""]

\* The markup render writes, as the values its template interpolates.  The
\* "Updated HH:MM" text comes from the clock at render time, which is not
\* modelled.
render(weatherData) ==
    [location |-> weatherData.location,
     temp |-> JSToString(weatherData.temperature) \o DEG,
     icon |-> getWeatherIcon(weatherData.weatherCode),
     description |-> getWeatherDescription(weatherData.weatherCode),
     humidity |-> JSToString(weatherData.humidity) \o "%",
     wind |-> JSToString(weatherData.windSpeed) \o " km/h"]

----------------------------------------------------------------------------
(* Inputs *)

\* this.config after the constructor: the defaults, or a caller's override
\* of defaultLat and defaultLon (London)
Configs ==
    {[defaultLat |-> DefaultLat, defaultLon |-> DefaultLon],
     [defaultLat |-> 515074, defaultLon |-> -1278]}

\* positions the device may report (New York)
Positions == {[lat |-> 407128, lon |-> -740060]}

\* the codes of a PositionError: PERMISSION_DENIED, POSITION_UNAVAILABLE, TIMEOUT
GeoErrors == {"denied", "unavailable", "timeout"}

\* Response bodies of the refresh cycles: two complete ones, one whose
\* processing throws and one whose processing does not although a field is
\* absent.
BodySeattle == Body(Num(216), Num(124), Num(61), Num(65), Num(476000), Num(-1223000))
BodyLondon == Body(Num(-25), Num(35), Num(53), Num(80), Num(515000), Num(-1250))
Bodies ==
    {BodySeattle, BodyLondon,
     Without(BodySeattle, "current_weather"), Without(BodySeattle, "temperature")}

\* the complete bodies with each field absent in turn
PartialBodies == {Without(b, f) : b \in {BodySeattle, BodyLondon}, f \in Fields}

\* Response bodies for the transformation and the lookup tables: every field
\* present, the values ranging over ties, signs, both sides of the 0.1 degree
\* band and every code of the tables and between them.
Temps == {-26, -25, -24, -4, 0, 5, 215, 216}
Winds == {4, 125}
Codes == (0..MaxCode) \cup {-1, 200}
Lats == {476062, 476962, 475162, 477162, 515074, 407128, 407500, -339}
Lons == {-1223321, -1222421, -1224421, -1278, -740060}
AllBodies ==
    {Body(Num(t), Num(w), Num(k), Num(65), Num(la), Num(lo)) :
        t \in Temps, w \in Winds, k \in Codes, la \in Lats, lo \in Lons}

----------------------------------------------------------------------------
(* The widget *)

NoCoords == [lat |-> 0, lon |-> 0]

\* a call of init() that has not happened yet; requests counts the calls of
\* fetch(...) the call of init() has made
Idle ==
    [pc |-> "idle", geo |-> "none", coords |-> NoCoords, data |-> EmptyBody,
     weatherData |-> NoSnapshot, error |-> "", promise |-> "none", requests |-> 0]

defaultCoords == [lat |-> config.defaultLat, lon |-> config.defaultLon]

showLoading ==
    /\ loadingDisplay' = "block"
    /\ contentDisplay' = "none"
    /\ errorDisplay' = "none"

showContent ==
    /\ loadingDisplay' = "none"
    /\ contentDisplay' = "block"
    /\ errorDisplay' = "none"

\* (showError without its first assignment)
showErrorKeepsLoading ==
    /\ loadingDisplay' = loadingDisplay
    /\ contentDisplay' = "none"
    /\ errorDisplay' = "block"

showError ==
    /\ loadingDisplay' = "none"
    /\ contentDisplay' = "none"
    /\ errorDisplay' = "block"

\* setInterval(() => this.init(), updateInterval): one more repeating timer
setupAutoRefresh == timers' = timers + 1

\* getLocation up to its first suspension: with no navigator.geolocation the
\* promise is resolved with the defaults at once, else getCurrentPosition
\* is called and the promise waits for a callback
getLocation(c) ==
    IF hasGeo
    THEN [Idle EXCEPT !.pc = "getLocation", !.geo = "pending", !.promise = "pending"]
    ELSE [Idle EXCEPT !.pc = "located", !.geo = "default", !.coords = defaultCoords,
                      !.promise = "pending"]

\* (init without its call of showLoading)
initSkipsLoading(c) ==
    /\ cycles' = [cycles EXCEPT ![c] = getLocation(c)]
    /\ UNCHANGED <<loadingDisplay, contentDisplay, errorDisplay>>

\* init() up to its first await: showLoading, then the call of getLocation
init(c) ==
    /\ showLoading
    /\ cycles' = [cycles EXCEPT ![c] = getLocation(c)]

\* (a catch block that throws the error again)
catchRethrows(c, error) ==
    /\ cycles' = [cycles EXCEPT ![c].pc = "done", ![c].error = error,
                                ![c].promise = "rejected"]
    /\ UNCHANGED <<loadingDisplay, contentDisplay, errorDisplay>>

\* the catch block of init: console.error, showError; init's promise fulfils
catch(c, error) ==
    /\ showError
    /\ cycles' = [cycles EXCEPT ![c].pc = "done", ![c].error = error,
                                ![c].promise = "fulfilled"]

\* the state when the constructor has returned: init() has run to its await
Init ==
    /\ config \in Configs
    /\ hasGeo \in BOOLEAN
    /\ loadingDisplay = "block"
    /\ contentDisplay = "none"
    /\ errorDisplay = "none"
    /\ contentHTML = NoHTML
    /\ lastUpdate = 0
    /\ cycles = [c \in Cycle |-> IF c = 1 THEN getLocation(1) ELSE Idle]
    /\ nCycles = 1
    /\ timers = 0

\* a timer of setupAutoRefresh fires: this.init()
TimerTick ==
    /\ timers > 0
    /\ nCycles < MaxCycles
    /\ init(nCycles + 1)
    /\ nCycles' = nCycles + 1
    /\ UNCHANGED <<config, hasGeo, contentHTML, lastUpdate, timers>>

\* the success callback of getCurrentPosition
GeoSuccess(c, position) ==
    /\ cycles[c].pc = "getLocation"
    /\ cycles' = [cycles EXCEPT ![c].pc = "located", ![c].geo = "device",
                                ![c].coords = position]
    /\ UNCHANGED <<config, hasGeo, loadingDisplay, contentDisplay, errorDisplay,
                   contentHTML, lastUpdate, nCycles, timers>>

\* (an error callback resolving with the literal defaults)
GeoErrorSeattle(c, code) ==
    /\ cycles[c].pc = "getLocation"
    /\ cycles' = [cycles EXCEPT ![c].pc = "located", ![c].geo = "default",
                                ![c].coords = [lat |-> DefaultLat, lon |-> DefaultLon]]
    /\ UNCHANGED <<config, hasGeo, loadingDisplay, contentDisplay, errorDisplay,
                   contentHTML, lastUpdate, nCycles, timers>>

\* (an error callback rejecting the promise)
GeoErrorRejects(c, code) ==
    /\ cycles[c].pc = "getLocation"
    /\ catch(c, "LocationUnavailable")
    /\ UNCHANGED <<config, hasGeo, contentHTML, lastUpdate, nCycles, timers>>

\* the error callback of getCurrentPosition (denial, error or timeout); it
\* takes no parameter, so the code of the PositionError is not looked at
GeoError(c, code) ==
    /\ cycles[c].pc = "getLocation"
    /\ cycles' = [cycles EXCEPT ![c].pc = "located", ![c].geo = "default",
                                ![c].coords = defaultCoords]
    /\ UNCHANGED <<config, hasGeo, loadingDisplay, contentDisplay, errorDisplay,
                   contentHTML, lastUpdate, nCycles, timers>>

\* (getLocation() not awaited: the request is sent before the location is there)
FetchWeatherNoAwait(c) ==
    /\ cycles[c].pc \in {"getLocation", "located"}
    /\ cycles' = [cycles EXCEPT ![c].pc = "fetch", ![c].requests = @ + 1]
    /\ UNCHANGED <<config, hasGeo, loadingDisplay, contentDisplay, errorDisplay,
                   contentHTML, lastUpdate, nCycles, timers>>

\* init resumes after await getLocation(): fetchWeather(coords.lat, coords.lon)
\* runs to its await fetch(...), the request sent
FetchWeather(c) ==
    /\ cycles[c].pc = "located"
    /\ cycles' = [cycles EXCEPT ![c].pc = "fetch", ![c].requests = @ + 1]
    /\ UNCHANGED <<config, hasGeo, loadingDisplay, contentDisplay, errorDisplay,
                   contentHTML, lastUpdate, nCycles, timers>>

\* (a rejected fetch is tried again)
FetchFailsRetries(c) ==
    /\ cycles[c].pc = "fetch"
    /\ cycles' = [cycles EXCEPT ![c].requests = @ + 1]
    /\ UNCHANGED <<config, hasGeo, loadingDisplay, contentDisplay, errorDisplay,
                   contentHTML, lastUpdate, nCycles, timers>>

\* fetch rejects (transport failure): the catch block of init
FetchFails(c) ==
    /\ cycles[c].pc = "fetch"
    /\ catch(c, "TypeError: Failed to fetch")
    /\ UNCHANGED <<config, hasGeo, contentHTML, lastUpdate, nCycles, timers>>

\* (lastUpdate set when the response arrives, before response.ok is looked at)
FetchRespondsStamps(c, ok) ==
    /\ cycles[c].pc = "fetch"
    /\ lastUpdate' = c
    /\ IF ok
       THEN /\ cycles' = [cycles EXCEPT ![c].pc = "json"]
            /\ UNCHANGED <<loadingDisplay, contentDisplay, errorDisplay>>
       ELSE catch(c, "Weather API error")
    /\ UNCHANGED <<config, hasGeo, contentHTML, nCycles, timers>>

\* fetch resolves with a response: !response.ok throws, else response.json()
\* is awaited
FetchResponds(c, ok) ==
    /\ cycles[c].pc = "fetch"
    /\ IF ok
       THEN /\ cycles' = [cycles EXCEPT ![c].pc = "json"]
            /\ UNCHANGED <<loadingDisplay, contentDisplay, errorDisplay>>
       ELSE catch(c, "Weather API error")
    /\ UNCHANGED <<config, hasGeo, contentHTML, lastUpdate, nCycles, timers>>

\* response.json() rejects (the body is not JSON)
JsonFails(c) ==
    /\ cycles[c].pc = "json"
    /\ catch(c, "SyntaxError")
    /\ UNCHANGED <<config, hasGeo, contentHTML, lastUpdate, nCycles, timers>>

\* (the catch block empties the content region)
JsonReadClearsOnError(c, data) ==
    /\ cycles[c].pc = "json"
    /\ lastUpdate' = c
    /\ LET weatherData == processWeatherData(data)
       IN IF weatherData.threw
          THEN /\ showError
               /\ cycles' = [cycles EXCEPT ![c].pc = "done", ![c].data = data,
                                           ![c].error = "TypeError",
                                           ![c].promise = "fulfilled"]
               /\ contentHTML' = NoHTML
               /\ UNCHANGED timers
          ELSE /\ contentHTML' = render(weatherData.value)
               /\ showContent
               /\ setupAutoRefresh
               /\ cycles' = [cycles EXCEPT ![c].pc = "done", ![c].data = data,
                                           ![c].weatherData = weatherData.value,
                                           ![c].promise = "fulfilled"]
    /\ UNCHANGED <<config, hasGeo, nCycles>>

\* response.json() resolves with data: lastUpdate is set, the data processed;
\* then, back in init, render, showContent and setupAutoRefresh, or the
\* catch block when processWeatherData threw
JsonRead(c, data) ==
    /\ cycles[c].pc = "json"
    /\ lastUpdate' = c
    /\ LET weatherData == processWeatherData(data)
       IN IF weatherData.threw
          THEN /\ showError
               /\ cycles' = [cycles EXCEPT ![c].pc = "done", ![c].data = data,
                                           ![c].error = "TypeError",
                                           ![c].promise = "fulfilled"]
               /\ UNCHANGED <<contentHTML, timers>>
          ELSE /\ contentHTML' = render(weatherData.value)
               /\ showContent
               /\ setupAutoRefresh
               /\ cycles' = [cycles EXCEPT ![c].pc = "done", ![c].data = data,
                                           ![c].weatherData = weatherData.value,
                                           ![c].promise = "fulfilled"]
    /\ UNCHANGED <<config, hasGeo, nCycles>>

Next ==
    \/ TimerTick
    \/ \E c \in Cycle, position \in Positions : GeoSuccess(c, position)
    \/ \E c \in Cycle, code \in GeoErrors : GeoError(c, code)
    \/ \E c \in Cycle : FetchWeather(c)
    \/ \E c \in Cycle : FetchFails(c)
    \/ \E c \in Cycle, ok \in BOOLEAN : FetchResponds(c, ok)
    \/ \E c \in Cycle : JsonFails(c)
    \/ \E c \in Cycle, data \in Bodies : JsonRead(c, data)

Spec == Init /\ [][Next]_vars

\* The event loop runs a resolved promise's continuation, and the host's
\* geolocation service calls one of the two callbacks (at the latest when
\* the 5000 ms timeout is over).
FairSpec ==
    /\ Spec
    /\ \A c \in Cycle :
          /\ WF_vars(\/ \E position \in Positions : GeoSuccess(c, position)
                     \/ \E code \in GeoErrors : GeoError(c, code))
          /\ WF_vars(FetchWeather(c))

\* One cycle of a host without geolocation whose request is answered with a
\* successful status: the transformation and the rendering applied to every
\* body of AllBodies and PartialBodies.
InitFn == Init /\ ~hasGeo

NextFn ==
    \/ FetchWeather(1)
    \/ FetchResponds(1, TRUE)
    \/ /\ cycles[1].pc = "json"
       /\ \E data \in AllBodies \cup PartialBodies : JsonRead(1, data)

SpecFn == InitFn /\ [][NextFn]_vars

----------------------------------------------------------------------------
(* Vocabulary of the properties *)

InFlight(c) == cycles[c].pc \in {"getLocation", "located", "fetch", "json"}

\* cycle c has ended, in Content (no error caught) or in Error
EndedInContent(c) == cycles[c].pc = "done" /\ cycles[c].error = ""
EndedInError(c) == cycles[c].pc = "done" /\ cycles[c].error # ""

Visible ==
    {r \in {"loading", "content", "error"} :
        CASE r = "loading" -> loadingDisplay = "block"
          [] r = "content" -> contentDisplay = "block"
          [] r = "error" -> errorDisplay = "block"}

Overridden == config.defaultLat # DefaultLat \/ config.defaultLon # DefaultLon

\* the region shown (one is, by C1)
DisplayState ==
    IF loadingDisplay = "block" THEN "Loading"
    ELSE IF contentDisplay = "block" THEN "Content"
    ELSE "Error"

\* cycle c ends in this step, and ends in Content
Ends(c) == cycles[c].pc # "done" /\ cycles'[c].pc = "done"
EndsInContent(c) == Ends(c) /\ cycles'[c].error = ""

----------------------------------------------------------------------------
(* Properties *)

\* C1: once the constructor has returned, exactly one of the three regions
\* (loading, content, error) is displayed and the other two are hidden, in
\* every reachable state, overlapping refresh cycles included.
C1_ExactlyOneRegionVisible ==
    /\ {loadingDisplay, contentDisplay, errorDisplay} \subseteq {"block", "none"}
    /\ Cardinality(Visible) = 1

\* a cycle is in flight although the error region is shown: a cycle started
\* while an earlier one was still running, and the earlier one failed since
C1_Witness ==
    /\ errorDisplay = "block"
    /\ \E c \in Cycle : InFlight(c)
    /\ \E c \in Cycle : EndedInError(c)

\* C2: after every cycle that ends in Error, the first one included, a
\* refresh timer is armed, so that a new cycle starts when the interval is
\* over.
C2_ErrorKeepsRefreshScheduled ==
    \A c \in Cycle : EndedInError(c) => timers >= 1

\* C3: after any number of completed cycles at most one repeating refresh
\* timer is active.
C3_AtMostOneTimer == timers <= 1

\* C4: a failure of the fetch step (fetch rejects, or the response status is
\* not successful) is caught in its cycle: the step that ends the cycle shows
\* the error region with the content region hidden and fulfils init's
\* promise, and no promise of init is ever rejected.
C4_FetchFailureCaught ==
    /\ [](\A c \in Cycle : cycles[c].promise # "rejected")
    /\ [][\A c \in Cycle :
            (cycles[c].pc = "fetch" /\ cycles'[c].pc = "done") =>
                /\ errorDisplay' = "block"
                /\ contentDisplay' = "none"
                /\ loadingDisplay' = "none"
                /\ cycles'[c].error # ""
                /\ cycles'[c].promise = "fulfilled"]_vars

\* a cycle has ended on a rejected fetch, another on an unsuccessful status
C4_Witness ==
    /\ \E c \in Cycle : EndedInError(c) /\ cycles[c].error = "TypeError: Failed to fetch"
    /\ \E c \in Cycle : EndedInError(c) /\ cycles[c].error = "Weather API error"
    /\ errorDisplay = "block"

\* C5: a cycle that read a body with an expected field absent ends in Error,
\* never in Content.
C5_MissingFieldEndsInError ==
    \A c \in Cycle :
        (cycles[c].pc = "done" /\ ~Complete(cycles[c].data)) => cycles[c].error # ""

\* C6: when location resolution fell back (an error callback, or no
\* geolocation in the host), the coordinates of that cycle's request are the
\* configured defaultLat and defaultLon, and the step in which such a cycle
\* reads a body that processWeatherData accepts shows the content region.
C6_FallbackUsesConfiguredDefault ==
    /\ [](\A c \in Cycle :
            (cycles[c].geo = "default" /\ cycles[c].pc \in {"located", "fetch", "json", "done"})
                => cycles[c].coords = [lat |-> config.defaultLat, lon |-> config.defaultLon])
    /\ [][\A c \in Cycle :
            (/\ cycles[c].geo = "default"
             /\ cycles[c].pc = "json" /\ cycles'[c].pc = "done"
             /\ ~processWeatherData(cycles'[c].data).threw) =>
                /\ contentDisplay' = "block"
                /\ loadingDisplay' = "none"
                /\ errorDisplay' = "none"]_vars

\* with an overridden configuration and a geolocation service that called
\* the error callback, the cycle has ended in Content
C6_Witness ==
    /\ Overridden
    /\ hasGeo
    /\ \E c \in Cycle : cycles[c].geo = "default" /\ EndedInContent(c)
    /\ contentDisplay = "block"

\* C7: every call of getLocation resolves, with the device's coordinates or
\* the defaults, and its cycle reaches the fetch step.
C7_LocationAlwaysResolves ==
    \A c \in Cycle :
        (cycles[c].pc \in {"getLocation", "located"}) ~>
            (/\ cycles[c].pc = "fetch"
             /\ cycles[c].coords \in
                    Positions \cup {[lat |-> config.defaultLat, lon |-> config.defaultLon]})

\* a cycle whose geolocation call ended in the error callback has sent its
\* request, and so has one that got the device's position
C7_Witness ==
    /\ hasGeo
    /\ \E c \in Cycle : cycles[c].pc = "fetch" /\ cycles[c].geo = "default"
    /\ \E c \in Cycle : cycles[c].pc = "fetch" /\ cycles[c].geo = "device"

\* the description the table of the specification gives code n
C8_SpecDescription(n) ==
    IF descriptionsVerbatim(n) # "" THEN descriptionsVerbatim(n) ELSE "Unknown"

\* the description and the icon expected of code n
C8_Description(n) ==
    CASE n \in {0} -> "Clear sky"
      [] n \in {1} -> "Mainly clear"
      [] n \in {2} -> "Partly cloudy"
      [] n \in {3} -> "Overcast"
      [] n \in {45, 48} -> "Foggy"
      [] n \in {51, 61, 71} ->
            "Light " \o (IF n = 51 THEN "drizzle" ELSE IF n = 61 THEN "rain" ELSE "snow")
      [] n \in {53} -> "Drizzle"
      [] n \in {63} -> "Rain"
      [] n \in {73} -> "Snow"
      [] n \in {55, 65, 75} ->
            "Heavy " \o (IF n = 55 THEN "drizzle" ELSE IF n = 65 THEN "rain" ELSE "snow")
      [] n \in {95, 96} -> "Thunderstorm"
      [] n \in {99} -> "Severe thunderstorm"
      [] OTHER -> "Unknown"

C8_Icon(n) ==
    IF n = 0 THEN "sun"
    ELSE IF n = 2 THEN "sun behind cloud"
    ELSE IF n = 3 THEN "cloud"
    ELSE IF n \in {45, 48} THEN "fog"
    ELSE IF n \in 51..55 /\ n % 2 = 1 THEN "sun behind rain cloud"
    ELSE IF n \in 61..65 /\ n % 2 = 1 THEN "cloud with rain"
    ELSE IF n \in 71..75 /\ n % 2 = 1 THEN "cloud with snow"
    ELSE IF n \in {95, 96, 99} THEN "cloud with lightning and rain"
    ELSE "sun behind small cloud"

C9_OneDecimal(v) ==
    {(IF v < 0 THEN "-" ELSE "") \o ToString(n \div 10) \o "." \o ToString(n % 10) \o DEG :
        n \in {k \in {Abs(v) \div 1000, Abs(v) \div 1000 + 1} :
                  Abs(1000 * k - Abs(v)) <= 500}}

\* label is the friendly label if (lat, lon) is within 0.1 degree of
\* (cLat, cLon), and the one-decimal coordinates if not
C9_Label(lat, lon, cLat, cLon, label) ==
    IF Abs(lat - cLat) < NearDegrees /\ Abs(lon - cLon) < NearDegrees
    THEN label = "Seattle, WA"
    ELSE label \in {a \o ", " \o b : a \in C9_OneDecimal(lat), b \in C9_OneDecimal(lon)}

\* C9 as stated: the label of the snapshot is the friendly one exactly when
\* the response's coordinates are within 0.1 degree of the configured
\* default location, and the one-decimal coordinates otherwise.
C9_FriendlyNearConfiguredDefault ==
    \A c \in Cycle :
        EndedInContent(c) /\ Complete(cycles[c].data) =>
            C9_Label(cycles[c].data.latitude.n, cycles[c].data.longitude.n,
                     config.defaultLat, config.defaultLon,
                     cycles[c].weatherData.location)

\* C9, amended: the label is the friendly one exactly when the coordinates
\* are within 0.1 degree of 47.6062, -122.3321, whatever the configuration
\* says, and the one-decimal coordinates otherwise.
C9_FriendlyNearSeattle ==
    \A c \in Cycle :
        EndedInContent(c) /\ Complete(cycles[c].data) =>
            C9_Label(cycles[c].data.latitude.n, cycles[c].data.longitude.n,
                     SeattleLat, SeattleLon,
                     cycles[c].weatherData.location)

\* under an overridden configuration, coordinates at the configured default
\* got the one-decimal label
C9_Witness ==
    /\ Overridden
    /\ EndedInContent(1)
    /\ cycles[1].data.latitude = Num(config.defaultLat)
    /\ cycles[1].data.longitude = Num(config.defaultLon)
    /\ cycles[1].weatherData.location = "51.5" \o DEG \o ", -0.1" \o DEG

\* C10: in every cycle that reached Content, the snapshot's temperature and
\* wind speed are integers nearest to the source values (given in tenths).
C10_RoundedToNearest ==
    \A c \in Cycle :
        EndedInContent(c) /\ Complete(cycles[c].data) =>
            LET src == cycles[c].data.current_weather
                snap == cycles[c].weatherData
            IN /\ snap.temperature.t = "number"
               /\ snap.windSpeed.t = "number"
               /\ Abs(10 * snap.temperature.n - src.temperature.n) <= 5
               /\ Abs(10 * snap.windSpeed.n - src.windspeed.n) <= 5

\* 21.6 became 22, with a wind speed of 12.5 become 13
C10_Witness ==
    /\ EndedInContent(1)
    /\ cycles[1].data.current_weather.temperature = Num(216)
    /\ cycles[1].weatherData.temperature = Num(22)
    /\ cycles[1].data.current_weather.windspeed = Num(125)
    /\ cycles[1].weatherData.windSpeed = Num(13)
    /\ contentHTML.temp = "22" \o DEG

\* C11: at no time are two cycles in flight.
C11_CyclesSerialized == Cardinality({c \in Cycle : InFlight(c)}) <= 1

\* C12: a cycle ends (shows Content or Error) only when Loading is shown,
\* and the display leaves Content or Error only for Loading.
C12_LoadingBetweenOutcomes ==
    [][/\ \A c \in Cycle : Ends(c) => DisplayState = "Loading"
       /\ (DisplayState \in {"Content", "Error"} /\ DisplayState' # DisplayState)
             => DisplayState' = "Loading"]_vars

\* C13: while the constructor's cycle is the only one and has not sent its
\* request, Loading is shown; and the step that starts a cycle shows Loading
\* and leaves the cycle before its location is resolved by a callback and
\* before any request.
C13_LoadingBeforeAsyncSteps ==
    /\ []((nCycles = 1 /\ cycles[1].pc \in {"getLocation", "located"})
            => (DisplayState = "Loading" /\ Visible = {"loading"}))
    /\ [][\A c \in Cycle :
            (cycles[c].pc = "idle" /\ cycles'[c].pc # "idle") =>
                /\ loadingDisplay' = "block"
                /\ contentDisplay' = "none"
                /\ errorDisplay' = "none"
                /\ cycles'[c].pc \in {"getLocation", "located"}
                /\ cycles'[c].geo # "device"
                /\ cycles'[c].requests = 0]_vars

\* a timer tick has taken the display from Content to Loading, its cycle
\* waiting for the geolocation callback
C13_Witness ==
    /\ EndedInContent(1)
    /\ \E c \in Cycle : c > 1 /\ cycles[c].pc = "getLocation"
    /\ Visible = {"loading"}

\* C14: a cycle sends its request only when its location is resolved, the
\* content region is written only in a step in which a cycle's body has been
\* processed without a throw, with the view of that cycle's snapshot, and the
\* content region comes to be shown only in such a step.
C14_StepsOfACycleInOrder ==
    [][/\ \A c \in Cycle :
            cycles'[c].requests # cycles[c].requests =>
                /\ cycles[c].pc = "located"
                /\ cycles[c].geo \in {"device", "default"}
                /\ cycles[c].coords \in Positions \cup
                        {[lat |-> config.defaultLat, lon |-> config.defaultLon]}
       /\ (contentHTML' # contentHTML \/ (contentDisplay = "none" /\ contentDisplay' = "block"))
             => \E c \in Cycle :
                    /\ cycles[c].pc = "json"
                    /\ EndsInContent(c)
                    /\ ~processWeatherData(cycles'[c].data).threw
                    /\ cycles'[c].weatherData = processWeatherData(cycles'[c].data).value
                    /\ contentHTML' = render(cycles'[c].weatherData)]_vars

\* a cycle that got the device's position has ended in Content, its view in
\* the content region
C14_Witness ==
    \E c \in Cycle :
        /\ EndedInContent(c)
        /\ cycles[c].geo = "device"
        /\ cycles[c].requests = 1
        /\ contentHTML = render(cycles[c].weatherData)
        /\ Visible = {"content"}

\* C15: no cycle sends a second request, and a cycle that has ended in Error
\* sends none.
C15_OneRequestPerCycle ==
    [][\A c \in Cycle :
            /\ cycles'[c].requests <= 1
            /\ EndedInError(c) => cycles'[c].requests = cycles[c].requests]_vars

\* a cycle's request has failed, and the request of a later cycle is out
C15_Witness ==
    \E c, d \in Cycle :
        /\ c < d
        /\ EndedInError(c) /\ cycles[c].error = "TypeError: Failed to fetch"
        /\ cycles[c].requests = 1
        /\ cycles[d].pc = "fetch" /\ cycles[d].requests = 1

\* C16: when no cycle is in flight, the display and the content region are
\* the outcome of the cycle started last.
C16_LatestCycleWins ==
    (\A c \in Cycle : ~InFlight(c)) =>
        IF EndedInContent(nCycles)
        THEN DisplayState = "Content" /\ contentHTML = render(cycles[nCycles].weatherData)
        ELSE DisplayState = "Error"

\* C17: when the content region is shown it has been written, with the view
\* of a cycle that ended in Content; a step in which a cycle ends in Content
\* writes that cycle's view, and every other step, the end of a cycle in
\* Error included, leaves the markup as it is.
C17_ContentHoldsLastSuccess ==
    /\ [](contentDisplay = "block" =>
            /\ contentHTML # NoHTML
            /\ \E c \in Cycle :
                  EndedInContent(c) /\ contentHTML = render(cycles[c].weatherData))
    /\ [][/\ \A c \in Cycle :
                EndsInContent(c) => contentHTML' = render(cycles'[c].weatherData)
          /\ (\A c \in Cycle : ~EndsInContent(c)) => contentHTML' = contentHTML]_vars

\* a cycle has ended in Error on a body it read, and the content region
\* still holds the view of the first cycle
C17_Witness ==
    /\ EndedInContent(1)
    /\ \E c \in Cycle : EndedInError(c) /\ cycles[c].error = "TypeError"
    /\ contentHTML = render(cycles[1].weatherData)
    /\ Visible = {"error"}

\* C18: lastUpdate is null (0) unless a cycle has read a body; a cycle whose
\* fetch rejects or whose status is not successful leaves lastUpdate as it
\* is, lastUpdate changes only in a step that reads a body, and it is not
\* null when the content region is shown.
C18_LastUpdateSetOnBodyRead ==
    /\ [](lastUpdate # 0 =>
            \E c \in Cycle : cycles[c].pc = "done" /\ cycles[c].data # EmptyBody)
    /\ [](contentDisplay = "block" => lastUpdate # 0)
    /\ [][/\ \A c \in Cycle :
                (cycles[c].pc = "fetch" /\ cycles'[c].pc = "done") => lastUpdate' = lastUpdate
          /\ lastUpdate' # lastUpdate =>
                \E c \in Cycle :
                    cycles[c].pc = "json" /\ cycles'[c].data # EmptyBody]_vars

\* lastUpdate is still the first cycle's after a later cycle got an
\* unsuccessful status and another a rejected fetch
C18_Witness ==
    /\ lastUpdate = 1
    /\ \E c \in Cycle : EndedInError(c) /\ cycles[c].error = "Weather API error"
    /\ \E c \in Cycle : EndedInError(c) /\ cycles[c].error = "TypeError: Failed to fetch"

====
